---- MODULE Spec2Model ----
(***************************************************************************)
(* Ranked-choice voting over a prefix trie of ballots (crate trie_rcv).    *)
(*                                                                         *)
(* src/src/vote.rs : RankedVote construction from raw i32 vectors          *)
(* src/src/lib.rs  : TrieNode, RankedChoiceVoteTrie, the elimination       *)
(*                   strategies and the determine_winner round loop        *)
(*                                                                         *)
(* Encodings used throughout:                                              *)
(*  - a VoteValues is the integer VoteValues::to_int gives it:             *)
(*    Candidate(c) is c >= 0, SpecialVote(WITHHOLD) is -1,                 *)
(*    SpecialVote(ABSTAIN) is -2 (to_int is injective on the enum);        *)
(*  - a &TrieNode is the path of VoteValues from the root to the node;     *)
(*    a trie is the function from the paths of its nodes to num_votes;     *)
(*  - an f32 is a 24-bit mantissa and an exponent, every operation        *)
(*    rounding to nearest, ties to even;                                   *)
(*  - a HashMap is a function on its key set; a Vec whose order no code    *)
(*    reads by position is the bag of its elements.                        *)
(***************************************************************************)
EXTENDS Integers, Sequences, FiniteSets, Bags, TLC

\* ---------------------------------------------------------------- bounds
\* candidate ids 1..NumCandidates; ballots of at most MaxLen entries
NumCandidates == 3
MaxLen == 2
\* ballots inserted into the trie (Spec, and the wider SpecWide)
MaxBallots == 3
MaxBallotsWide == 4
\* SpecRun: ballots the receiver holds, ballots handed to run_election
MaxReceiverBallots == 1
MaxRunBallots == 2
\* SpecVote: length of the raw vectors handed to from_vector
MaxRawLen == 3

\* ------------------------------------------------------------- constants
WITHHOLD == -1
ABSTAIN == -2
U16Max == 65535
F32MantissaBits == 24
GuardBits == 3

Candidates == 1..NumCandidates

\* ------------------------------------------------------------- utilities
RECURSIVE Pow2(_)
Pow2(n) == IF n = 0 THEN 1 ELSE 2 * Pow2(n - 1)

RECURSIVE SumSet(_, _)
\* sum of f[x] over x in S
SumSet(f, S) ==
    IF S = {} THEN 0
    ELSE LET x == CHOOSE y \in S : TRUE IN f[x] + SumSet(f, S \ {x})

RECURSIVE SeqsUpTo(_, _)
\* sequences over S of length 0..n
SeqsUpTo(S, n) ==
    IF n = 0 THEN {<<>>}
    ELSE LET shorter == SeqsUpTo(S, n - 1)
         IN shorter \cup {Append(s, x) : s \in shorter, x \in S}

Range(s) == {s[i] : i \in 1..Len(s)}

\* --------------------------------------------------------------- f32
\* A finite non-negative f32 is [m, e], worth m * 2^e, with m = 0 (and
\* e = 0) or 2^23 <= m < 2^24.  Every operation rounds to nearest, ties
\* to even, as IEEE 754 binary32 does.
RECURSIVE BitLen(_)
\* number of binary digits of n >= 0
BitLen(n) == IF n = 0 THEN 0 ELSE 1 + BitLen(n \div 2)

F32Zero == [m |-> 0, e |-> 0]

\* num / den rounded to an integer, ties to even
RoundHalfEven(num, den) ==
    LET q == num \div den
        rem == num % den
    IN IF (2 * rem > den) \/ (2 * rem = den /\ q % 2 = 1) THEN q + 1 ELSE q

\* the f32 nearest to n * 2^e for an integer n > 0 of at most 30 bits
F32Normalize(n, e) ==
    LET shift == BitLen(n) - F32MantissaBits
        m == IF shift > 0 THEN RoundHalfEven(n, Pow2(shift))
             ELSE n * Pow2(0 - shift)
    IN IF m = Pow2(F32MantissaBits)
       THEN [m |-> Pow2(F32MantissaBits - 1), e |-> e + shift + 1]
       ELSE [m |-> m, e |-> e + shift]

F32Le(a, b) ==
    \/ a.m = 0
    \/ b.m # 0 /\ (a.e < b.e \/ (a.e = b.e /\ a.m <= b.m))

\* a + b: the smaller operand is aligned to the larger with GuardBits
\* extra bits, the bits shifted out kept as a sticky lowest bit
F32Add(a, b) ==
    IF a.m = 0 THEN b
    ELSE IF b.m = 0 THEN a
    ELSE LET hi == IF F32Le(b, a) THEN a ELSE b
             lo == IF F32Le(b, a) THEN b ELSE a
             d == hi.e - lo.e
             wide == lo.m * Pow2(GuardBits)
             aligned == IF d >= F32MantissaBits + GuardBits THEN 1
                        ELSE LET q == wide \div Pow2(d)
                             IN IF wide % Pow2(d) # 0 /\ q % 2 = 0
                                THEN q + 1 ELSE q
         IN F32Normalize(hi.m * Pow2(GuardBits) + aligned, hi.e - GuardBits)

\* 1.0 / (n as f32) for 1 <= n < 128
F32Recip(n) ==
    LET up == F32MantissaBits - 1 + BitLen(n - 1)
    IN F32Normalize(RoundHalfEven(Pow2(up), n), 0 - up)

\* ------------------------------------------------------------ vote.rs
\* VoteValues::Candidate / VoteValues::SpecialVote under the to_int encoding
Candidate(c) == c
SpecialVote(s) == IF s = "WITHHOLD" THEN WITHHOLD ELSE ABSTAIN

IsSpecialVote(vote_value) == vote_value < 0

\* SpecialVotes::from_int
SpecialVotes_from_int(raw_value) ==
    CASE raw_value = -1 -> [ok |-> TRUE, value |-> "WITHHOLD", err |-> "None"]
      [] raw_value = -2 -> [ok |-> TRUE, value |-> "ABSTAIN", err |-> "None"]
      [] OTHER -> [ok |-> FALSE, value |-> "None",
                   err |-> "InvalidCastToSpecialVote"]

\* SpecialVotes::to_int
SpecialVotes_to_int(special_vote) ==
    IF special_vote = "WITHHOLD" THEN -1 ELSE -2

\* u16::try_from(i32)
U16TryFrom(raw_value) == raw_value >= 0 /\ raw_value <= U16Max

VoteOk(rankings, special_vote) ==
    [kind |-> "Ok", err |-> "None",
     rankings |-> rankings, special_vote |-> special_vote]
VoteErr(e) ==
    [kind |-> "Err", err |-> e, rankings |-> <<>>, special_vote |-> "None"]
VotePanic(what) ==
    [kind |-> "Panic", err |-> what, rankings |-> <<>>, special_vote |-> "None"]

RECURSIVE from_vector_loop(_, _, _, _, _)
\* the for loop of RankedVote::from_vector from index k on
from_vector_loop(raw, k, candidates, special_vote_value, unique_values) ==
    IF k > Len(raw)
    THEN IF special_vote_value = "None" /\ candidates = <<>>
         THEN VoteErr("VoteIsEmpty")
         ELSE VoteOk(candidates, special_vote_value)
    ELSE
      LET value == raw[k]
          is_last_index == (k = Len(raw))
          unique2 == unique_values \cup {value}
      IN IF value \in unique_values THEN VoteErr("DuplicateVotes")
         ELSE IF value < 0
         THEN IF ~is_last_index THEN VoteErr("NonFinalSpecialVote")
              ELSE LET cast_result == SpecialVotes_from_int(value)
                   IN IF ~cast_result.ok THEN VoteErr(cast_result.err)
                      ELSE from_vector_loop(raw, k + 1, candidates,
                                            cast_result.value, unique2)
         ELSE IF ~(value > 0)
              THEN VotePanic("assert is_positive")
              ELSE IF U16TryFrom(value)
                   THEN from_vector_loop(raw, k + 1,
                            Append(candidates, value),
                            special_vote_value, unique2)
                   ELSE VoteErr("InvalidCastToSpecialVote")

\* RankedVote::from_vector
from_vector(raw_ranked_vote) ==
    from_vector_loop(raw_ranked_vote, 1, <<>>, "None", {})

\* RankedVote::to_vector
to_vector(vote) ==
    IF vote.special_vote = "None" THEN vote.rankings
    ELSE Append(vote.rankings, SpecialVotes_to_int(vote.special_vote))

\* RankedVote::iter (VoteStructIterator::next until exhausted)
iter(vote) ==
    IF vote.special_vote = "None" THEN [i \in 1..Len(vote.rankings) |->
                                           Candidate(vote.rankings[i])]
    ELSE Append([i \in 1..Len(vote.rankings) |-> Candidate(vote.rankings[i])],
                SpecialVote(vote.special_vote))

\* ------------------------------------------------------------- lib.rs
\* TrieNode::new as the one-node trie; RankedChoiceVoteTrie::new
TrieNode_new == (<<>> :> 0)

new ==
    [root |-> TrieNode_new,
     dowdall_score_map |-> <<>>,
     elimination_strategy |-> "DowdallScoring",
     unique_candidates |-> {}]

Strategies ==
    {"EliminateAll", "DowdallScoring", "RankedPairs", "CondorcetRankedPairs"}

\* RankedChoiceVoteTrie::get_num_votes
get_num_votes(self) == self.root[<<>>]

\* RankedChoiceVoteTrie::set_elimination_strategy
set_elimination_strategy(self, strategy) ==
    [self EXCEPT !.elimination_strategy = strategy]

Prefixes(s) == {SubSeq(s, 1, n) : n \in 0..Len(s)}

RECURSIVE insert_scores(_, _, _)
\* the Candidate arm of insert_vote's loop from 1-based position k on
insert_scores(score_map, items, k) ==
    IF k > Len(items) THEN score_map
    ELSE IF IsSpecialVote(items[k]) THEN insert_scores(score_map, items, k + 1)
    ELSE LET candidate == items[k]
             score == IF candidate \in DOMAIN score_map
                      THEN score_map[candidate] ELSE F32Zero
             new_score == F32Add(score, F32Recip(k))
             cleared == [c \in DOMAIN score_map \ {candidate} |-> score_map[c]]
         IN insert_scores(cleared @@ (candidate :> new_score), items, k + 1)

\* mutant: only the node a ballot ends at (and the root) counts the ballot
insert_vote_counts_ending_node(self, vote) ==
    LET items == iter(vote)
        walked == Prefixes(items)
    IN [root |-> [p \in DOMAIN self.root \cup walked |->
                    (IF p \in DOMAIN self.root THEN self.root[p] ELSE 0)
                    + (IF p \in {<<>>, items} THEN 1 ELSE 0)],
        dowdall_score_map |-> insert_scores(self.dowdall_score_map, items, 1),
        elimination_strategy |-> self.elimination_strategy,
        unique_candidates |-> self.unique_candidates
                              \cup {v \in Range(items) : ~IsSpecialVote(v)}]

\* mutant: a node the ballot creates starts from the root's count
insert_vote_new_nodes_from_root(self, vote) ==
    LET items == iter(vote)
        walked == Prefixes(items)
    IN [root |-> [p \in DOMAIN self.root \cup walked |->
                    (IF p \in DOMAIN self.root THEN self.root[p]
                     ELSE self.root[<<>>])
                    + (IF p \in walked THEN 1 ELSE 0)],
        dowdall_score_map |-> insert_scores(self.dowdall_score_map, items, 1),
        elimination_strategy |-> self.elimination_strategy,
        unique_candidates |-> self.unique_candidates
                              \cup {v \in Range(items) : ~IsSpecialVote(v)}]

\* RankedChoiceVoteTrie::insert_vote
insert_vote(self, vote) ==
    LET items == iter(vote)
        walked == Prefixes(items)
    IN [root |-> [p \in DOMAIN self.root \cup walked |->
                    (IF p \in DOMAIN self.root THEN self.root[p] ELSE 0)
                    + (IF p \in walked THEN 1 ELSE 0)],
        dowdall_score_map |-> insert_scores(self.dowdall_score_map, items, 1),
        elimination_strategy |-> self.elimination_strategy,
        unique_candidates |-> self.unique_candidates
                              \cup {v \in Range(items) : ~IsSpecialVote(v)}]

RECURSIVE insert_votes(_, _)
\* RankedChoiceVoteTrie::insert_votes
insert_votes(self, votes) ==
    IF votes = <<>> THEN self
    ELSE insert_votes(insert_vote(self, Head(votes)), Tail(votes))

\* TrieNode.children of the node at path node
Children(root, node) ==
    {p \in DOMAIN root : Len(p) = Len(node) + 1
                         /\ SubSeq(p, 1, Len(node)) = node}

Last(p) == p[Len(p)]

\* HashMap::get(..).unwrap_or(&0)
GetOr0(map, key) == IF key \in DOMAIN map THEN map[key] ELSE 0

\* mutant: the reversed pair of every key is credited as well
AddToEntries_and_reversed(map, keys, n) ==
    LET both == keys \cup {<<key[2], key[1]>> : key \in keys}
    IN [key \in DOMAIN map \cup both |->
          GetOr0(map, key) + (IF key \in both THEN n ELSE 0)]

\* *map.entry(key).or_insert(0) += n for every key of keys
AddToEntries(map, keys, n) ==
    [key \in DOMAIN map \cup keys |->
        GetOr0(map, key) + (IF key \in keys THEN n ELSE 0)]

\* mutant: the special children are pushed as vote transfers too
transfer_next_votes_pushes_specials(root, node) ==
    LET child_nodes == Children(root, node)
    IN [withhold_votes |->
            Cardinality({n \in child_nodes : Last(n) = SpecialVote("WITHHOLD")}),
        abstain_votes |->
            Cardinality({n \in child_nodes : Last(n) = SpecialVote("ABSTAIN")}),
        vote_transfers |-> child_nodes]

\* RankedChoiceVoteTrie::transfer_next_votes
transfer_next_votes(root, node) ==
    LET child_nodes == Children(root, node)
    IN [withhold_votes |->
            Cardinality({n \in child_nodes : Last(n) = SpecialVote("WITHHOLD")}),
        abstain_votes |->
            Cardinality({n \in child_nodes : Last(n) = SpecialVote("ABSTAIN")}),
        vote_transfers |-> {n \in child_nodes : ~IsSpecialVote(Last(n))}]

\* ------------------------------------------------- preference graph
RECURSIVE dfs_find_cycle(_, _, _)
\* is_graph_acyclic::dfs_find_cycle; path holds the nodes pushed so far
dfs_find_cycle(node, path, edges) ==
    \E neighbor \in {e[2] : e \in {d \in edges : d[1] = node}} :
        \/ neighbor \in Range(path)
        \/ dfs_find_cycle(neighbor, Append(path, neighbor), edges)

\* is_graph_acyclic: a DFS from every node not explored by an earlier
\* cycle-free DFS; such a node has no cycle below it, so skipping it and
\* searching from it agree
is_graph_acyclic(nodes, edges) ==
    \A node \in nodes : ~dfs_find_cycle(node, <<>>, edges)

RECURSIVE explore_undirected(_, _, _)
\* the worklist loop of is_graph_weakly_connected
explore_undirected(queue, explored_nodes, edges) ==
    IF queue = {} THEN explored_nodes
    ELSE LET node == CHOOSE n \in queue : TRUE
             neighbors == {e[1] : e \in {d \in edges : d[2] = node}}
                          \cup {e[2] : e \in {d \in edges : d[1] = node}}
         IN IF node \in explored_nodes
            THEN explore_undirected(queue \ {node}, explored_nodes, edges)
            ELSE explore_undirected((queue \ {node}) \cup neighbors,
                                    explored_nodes \cup {node}, edges)

\* is_graph_weakly_connected
is_graph_weakly_connected(nodes, edges) ==
    IF nodes = {} THEN TRUE
    ELSE LET start_node == CHOOSE n \in nodes : TRUE
         IN explore_undirected({start_node}, {}, edges) = nodes

\* the edges find_ranked_pairs_weakest adds: candidate1 -> candidate2 when
\* get_preference is PreferredOver
preference_edges(candidates, ranked_pairs_map) ==
    {pair \in candidates \X candidates :
        /\ pair[1] # pair[2]
        /\ GetOr0(ranked_pairs_map, <<pair[1], pair[2]>>)
             > GetOr0(ranked_pairs_map, <<pair[2], pair[1]>>)}

\* mutant: the weakest nodes are those with no incoming edge
find_ranked_pairs_weakest_no_incoming(candidates, ranked_pairs_map) ==
    LET edges == preference_edges(candidates, ranked_pairs_map)
    IN IF ~(is_graph_acyclic(candidates, edges)
            /\ is_graph_weakly_connected(candidates, edges))
       THEN [weakest |-> candidates, decisive |-> FALSE]
       ELSE [weakest |-> {n \in candidates : ~\E e \in edges : e[2] = n},
             decisive |-> TRUE]

\* RankedChoiceVoteTrie::find_ranked_pairs_weakest
find_ranked_pairs_weakest(candidates, ranked_pairs_map) ==
    LET edges == preference_edges(candidates, ranked_pairs_map)
    IN IF ~(is_graph_acyclic(candidates, edges)
            /\ is_graph_weakly_connected(candidates, edges))
       THEN [weakest |-> candidates, decisive |-> FALSE]
       ELSE [weakest |-> {n \in candidates : ~\E e \in edges : e[1] = n},
             decisive |-> TRUE]

RECURSIVE sorted_values(_)
\* candidate_vote_counts.values() collected and sorted ascending
sorted_values(counts) ==
    IF DOMAIN counts = {} THEN <<>>
    ELSE LET c == CHOOSE x \in DOMAIN counts :
                     \A y \in DOMAIN counts : counts[x] <= counts[y]
         IN <<counts[c]>>
            \o sorted_values([d \in DOMAIN counts \ {c} |-> counts[d]])

\* mutant: the threshold is the lowest vote count, not the second lowest
find_condorcet_ranked_pairs_weakest_lowest(candidate_vote_counts, ranked_pairs_map, lowest_vote_candidates) ==
    LET vote_counts == sorted_values(candidate_vote_counts)
    IN IF Len(vote_counts) = 0 THEN {}
       ELSE LET vote_threshold == vote_counts[1]
                weak_candidates ==
                    {c \in DOMAIN candidate_vote_counts :
                        candidate_vote_counts[c] <= vote_threshold}
                pairs_result ==
                    find_ranked_pairs_weakest(weak_candidates, ranked_pairs_map)
            IN IF pairs_result.decisive = FALSE THEN lowest_vote_candidates
               ELSE pairs_result.weakest

\* RankedChoiceVoteTrie::find_condorcet_ranked_pairs_weakest
find_condorcet_ranked_pairs_weakest(candidate_vote_counts, ranked_pairs_map, lowest_vote_candidates) ==
    LET vote_counts == sorted_values(candidate_vote_counts)
    IN IF Len(vote_counts) = 0 THEN {}
       ELSE LET vote_threshold == IF Len(vote_counts) >= 2
                                  THEN vote_counts[2] ELSE vote_counts[1]
                weak_candidates ==
                    {c \in DOMAIN candidate_vote_counts :
                        candidate_vote_counts[c] <= vote_threshold}
                pairs_result ==
                    find_ranked_pairs_weakest(weak_candidates, ranked_pairs_map)
            IN IF pairs_result.decisive = FALSE THEN lowest_vote_candidates
               ELSE pairs_result.weakest

\* the f32 minimum of find_dowdall_weakest's first loop (f32::MAX is above
\* every score the bounds allow)
min_score_of(score_map, candidates) ==
    CHOOSE s \in {score_map[c] : c \in candidates} :
        \A c \in candidates : F32Le(s, score_map[c])

\* mutant: the scores are not looked at
find_dowdall_weakest_ignores_scores(self, candidates) ==
    IF ~(candidates \subseteq DOMAIN self.dowdall_score_map)
    THEN [weakest |-> {}, ok |-> FALSE]
    ELSE [weakest |-> candidates, ok |-> TRUE]

\* RankedChoiceVoteTrie::find_dowdall_weakest; ok is FALSE where the
\* expect on the score map fails
find_dowdall_weakest(self, candidates) ==
    IF ~(candidates \subseteq DOMAIN self.dowdall_score_map)
    THEN [weakest |-> {}, ok |-> FALSE]
    ELSE IF candidates = {} THEN [weakest |-> {}, ok |-> TRUE]
    ELSE [weakest |-> {c \in candidates :
                         self.dowdall_score_map[c]
                           = min_score_of(self.dowdall_score_map, candidates)},
          ok |-> TRUE]

\* --------------------------------------------------- pairwise table
RECURSIVE build_ranked_pairs_map(_, _, _, _, _)
RECURSIVE build_ranked_pairs_children(_, _, _, _, _)

\* the for loop of build_ranked_pairs_map over the candidate children
\* still to visit (a special child only lowers terminating_votes)
build_ranked_pairs_children(root, kids, search_path, acc, unique_candidates) ==
    IF kids = {} THEN acc
    ELSE LET child == CHOOSE k \in kids : TRUE
             candidate == Last(child)
             credited ==
                 [map |-> AddToEntries(acc.map,
                              {<<p, candidate>> : p \in Range(search_path)},
                              root[child]),
                  ok |-> acc.ok]
             below == build_ranked_pairs_map(root, child,
                          Append(search_path, candidate), credited,
                          unique_candidates)
         IN build_ranked_pairs_children(root, kids \ {child}, search_path,
                                        below, unique_candidates)

\* RankedChoiceVoteTrie::build_ranked_pairs_map; acc.ok turns FALSE where
\* assert!(terminating_votes >= child.num_votes) fails, which happens in
\* some iteration of the loop exactly when the children's counts sum to
\* more than node.num_votes
build_ranked_pairs_map(root, node, search_path, acc, unique_candidates) ==
    LET kids == Children(root, node)
        child_votes == SumSet(root, kids)
        asserted == [map |-> acc.map,
                     ok |-> acc.ok /\ root[node] >= child_votes]
        walked == build_ranked_pairs_children(root,
                      {k \in kids : ~IsSpecialVote(Last(k))},
                      search_path, asserted, unique_candidates)
        terminating_votes == root[node] - child_votes
        unspecified_candidates == unique_candidates \ Range(search_path)
    IN IF terminating_votes > 0
       THEN [map |-> AddToEntries(walked.map,
                         Range(search_path) \X unspecified_candidates,
                         terminating_votes),
             ok |-> walked.ok]
       ELSE walked

\* -------------------------------------------------- determine_winner
EmptyMap == <<>>

\* the ranked_pairs_map determine_winner builds at lib.rs 581-584
ranked_pairs_map_of(self) ==
    build_ranked_pairs_map(self.root, <<>>, <<>>,
        [map |-> EmptyMap, ok |-> TRUE], self.unique_candidates).map

Pending == [tag |-> "Pending", value |-> 0]
None == [tag |-> "None", value |-> 0]
Some(candidate) == [tag |-> "Some", value |-> candidate]
Panic == [tag |-> "Panic", value |-> 0]

\* what one pass of the while loop computed between the weakest-set
\* selection and the vote transfers (history only, no code reads it)
NoRound ==
    [weakest |-> {}, eliminated_nodes |-> EmptyBag,
     new_withhold_votes |-> 0, new_abstain_votes |-> 0,
     all_vote_transfers |-> EmptyBag,
     effective_before |-> 0, candidate_before |-> 0,
     eliminated_before |-> {}]

\* the locals of determine_winner outside a call
DwIdle ==
    [pc |-> "idle",
     candidate_vote_counts |-> EmptyMap,
     frontier_nodes |-> EmptyMap,
     effective_total_votes |-> 0,
     total_candidate_votes |-> 0,
     ranked_pairs_map |-> EmptyMap,
     result |-> Pending, why |-> "none",
     rounds |-> 0, eliminated |-> {}, last |-> NoRound]

Returned(st, result, why) ==
    [st EXCEPT !.pc = "done", !.result = result, !.why = why]

\* mutant: the special children of the root are taken for candidates
root_candidate_nodes_with_specials(root) == Children(root, <<>>)

\* the root children of the Candidate arm of the first loop (lib.rs 566)
root_candidate_nodes(root) ==
    {n \in Children(root, <<>>) : ~IsSpecialVote(Last(n))}

\* mutant: the Withhold arm adds to total_candidate_votes and not to
\* effective_total_votes
determine_winner_init_withhold_as_candidate(self) ==
    LET root == self.root
        top == Children(root, <<>>)
        candidate_nodes == root_candidate_nodes(root)
        withhold_nodes == {n \in top : Last(n) = SpecialVote("WITHHOLD")}
        strategy == self.elimination_strategy
        pairs == IF strategy \in {"RankedPairs", "CondorcetRankedPairs"}
                 THEN build_ranked_pairs_map(root, <<>>, <<>>,
                          [map |-> EmptyMap, ok |-> TRUE],
                          self.unique_candidates)
                 ELSE [map |-> EmptyMap, ok |-> TRUE]
        st == [DwIdle EXCEPT
                 !.pc = "loop",
                 !.candidate_vote_counts =
                     [c \in {Last(n) : n \in candidate_nodes} |-> root[<<c>>]],
                 !.frontier_nodes =
                     [c \in {Last(n) : n \in candidate_nodes} |->
                         SetToBag({<<c>>})],
                 !.total_candidate_votes =
                     SumSet(root, candidate_nodes) + SumSet(root, withhold_nodes),
                 !.effective_total_votes = SumSet(root, candidate_nodes),
                 !.ranked_pairs_map = pairs.map]
    IN IF pairs.ok THEN st ELSE Returned(st, Panic, "assert terminating_votes")

\* determine_winner up to the while loop (lib.rs 549-585)
determine_winner_init(self) ==
    LET root == self.root
        top == Children(root, <<>>)
        candidate_nodes == root_candidate_nodes(root)
        withhold_nodes == {n \in top : Last(n) = SpecialVote("WITHHOLD")}
        strategy == self.elimination_strategy
        pairs == IF strategy \in {"RankedPairs", "CondorcetRankedPairs"}
                 THEN build_ranked_pairs_map(root, <<>>, <<>>,
                          [map |-> EmptyMap, ok |-> TRUE],
                          self.unique_candidates)
                 ELSE [map |-> EmptyMap, ok |-> TRUE]
        st == [DwIdle EXCEPT
                 !.pc = "loop",
                 !.candidate_vote_counts =
                     [c \in {Last(n) : n \in candidate_nodes} |-> root[<<c>>]],
                 !.frontier_nodes =
                     [c \in {Last(n) : n \in candidate_nodes} |->
                         SetToBag({<<c>>})],
                 !.total_candidate_votes = SumSet(root, candidate_nodes),
                 !.effective_total_votes =
                     SumSet(root, candidate_nodes) + SumSet(root, withhold_nodes),
                 !.ranked_pairs_map = pairs.map]
    IN IF pairs.ok THEN st ELSE Returned(st, Panic, "assert terminating_votes")

RECURSIVE BagSum(_, _)
\* the bag of all elements of the bags f[x], x in S
BagSum(f, S) ==
    IF S = {} THEN EmptyBag
    ELSE LET x == CHOOSE y \in S : TRUE IN f[x] (+) BagSum(f, S \ {x})

Parent(node) == SubSeq(node, 1, Len(node) - 1)

\* the weakest_candidates of one round (lib.rs 603-631)
weakest_candidates_of(self, counts, ranked_pairs_map) ==
    LET min_candidate_votes ==
            CHOOSE v \in {counts[c] : c \in DOMAIN counts} :
                \A c \in DOMAIN counts : v <= counts[c]
        lowest_vote_candidates ==
            {c \in DOMAIN counts : counts[c] = min_candidate_votes}
    IN CASE self.elimination_strategy = "EliminateAll" ->
              [weakest |-> lowest_vote_candidates, ok |-> TRUE]
         [] self.elimination_strategy = "DowdallScoring" ->
              find_dowdall_weakest(self, lowest_vote_candidates)
         [] self.elimination_strategy = "RankedPairs" ->
              [weakest |-> find_ranked_pairs_weakest(
                               lowest_vote_candidates, ranked_pairs_map).weakest,
               ok |-> TRUE]
         [] OTHER ->
              [weakest |-> find_condorcet_ranked_pairs_weakest(
                               counts, ranked_pairs_map, lowest_vote_candidates),
               ok |-> TRUE]

\* mutant: the eliminated candidates stay in the vote map and the frontier
eliminate_and_transfer_keeps_weakest(self, st, weakest_candidates) ==
    LET root == self.root
        frontier == st.frontier_nodes
        counts == st.candidate_vote_counts
        eliminated_nodes == BagSum(frontier, weakest_candidates)
        nodes == BagToSet(eliminated_nodes)
        transfer == [n \in nodes |-> transfer_next_votes(root, n)]
        new_abstain_votes ==
            SumSet([n \in nodes |->
                      eliminated_nodes[n] * transfer[n].abstain_votes], nodes)
        new_withhold_votes ==
            SumSet([n \in nodes |->
                      eliminated_nodes[n] * transfer[n].withhold_votes], nodes)
        next_nodes == UNION {transfer[n].vote_transfers : n \in nodes}
        all_vote_transfers ==
            [n \in next_nodes |-> eliminated_nodes[Parent(n)]]
        remaining == DOMAIN counts
        receivers == {Last(n) : n \in next_nodes}
        to(x) == {n \in next_nodes : Last(n) = x}
        last == [weakest |-> weakest_candidates,
                 eliminated_nodes |-> eliminated_nodes,
                 new_withhold_votes |-> new_withhold_votes,
                 new_abstain_votes |-> new_abstain_votes,
                 all_vote_transfers |-> all_vote_transfers,
                 effective_before |-> st.effective_total_votes,
                 candidate_before |-> st.total_candidate_votes,
                 eliminated_before |-> st.eliminated]
        removed == [st EXCEPT
                      !.candidate_vote_counts =
                          [c \in remaining |-> counts[c]],
                      !.frontier_nodes = [c \in remaining |-> frontier[c]],
                      !.last = last]
    IN IF next_nodes = {} THEN Returned(removed, None, "no transfers")
       ELSE IF st.total_candidate_votes < new_abstain_votes + new_withhold_votes
               \/ st.effective_total_votes < new_abstain_votes
       THEN Returned(removed, Panic, "subtract with overflow")
       ELSE IF \E n \in next_nodes : ~(root[n] > 0)
       THEN Returned(removed, Panic, "assert vote_allocation")
       ELSE [removed EXCEPT
               !.total_candidate_votes =
                   @ - (new_abstain_votes + new_withhold_votes),
               !.effective_total_votes = @ - new_abstain_votes,
               !.candidate_vote_counts =
                   [x \in remaining \cup receivers |->
                       (IF x \in remaining THEN counts[x] ELSE 0)
                       + SumSet([n \in to(x) |->
                                   all_vote_transfers[n] * root[n]], to(x))],
               !.frontier_nodes =
                   [x \in remaining \cup receivers |->
                       (IF x \in remaining THEN frontier[x] ELSE EmptyBag)
                       (+) [n \in to(x) |-> all_vote_transfers[n]]],
               !.rounds = @ + 1,
               !.eliminated = @ \cup weakest_candidates]

\* lib.rs 633-671: eliminate the weakest candidates and transfer their votes
eliminate_and_transfer(self, st, weakest_candidates) ==
    LET root == self.root
        frontier == st.frontier_nodes
        counts == st.candidate_vote_counts
        eliminated_nodes == BagSum(frontier, weakest_candidates)
        nodes == BagToSet(eliminated_nodes)
        transfer == [n \in nodes |-> transfer_next_votes(root, n)]
        new_abstain_votes ==
            SumSet([n \in nodes |->
                      eliminated_nodes[n] * transfer[n].abstain_votes], nodes)
        new_withhold_votes ==
            SumSet([n \in nodes |->
                      eliminated_nodes[n] * transfer[n].withhold_votes], nodes)
        next_nodes == UNION {transfer[n].vote_transfers : n \in nodes}
        all_vote_transfers ==
            [n \in next_nodes |-> eliminated_nodes[Parent(n)]]
        remaining == DOMAIN counts \ weakest_candidates
        receivers == {Last(n) : n \in next_nodes}
        to(x) == {n \in next_nodes : Last(n) = x}
        last == [weakest |-> weakest_candidates,
                 eliminated_nodes |-> eliminated_nodes,
                 new_withhold_votes |-> new_withhold_votes,
                 new_abstain_votes |-> new_abstain_votes,
                 all_vote_transfers |-> all_vote_transfers,
                 effective_before |-> st.effective_total_votes,
                 candidate_before |-> st.total_candidate_votes,
                 eliminated_before |-> st.eliminated]
        removed == [st EXCEPT
                      !.candidate_vote_counts =
                          [c \in remaining |-> counts[c]],
                      !.frontier_nodes = [c \in remaining |-> frontier[c]],
                      !.last = last]
    IN IF next_nodes = {} THEN Returned(removed, None, "no transfers")
       ELSE IF st.total_candidate_votes < new_abstain_votes + new_withhold_votes
               \/ st.effective_total_votes < new_abstain_votes
       THEN Returned(removed, Panic, "subtract with overflow")
       ELSE IF \E n \in next_nodes : ~(root[n] > 0)
       THEN Returned(removed, Panic, "assert vote_allocation")
       ELSE [removed EXCEPT
               !.total_candidate_votes =
                   @ - (new_abstain_votes + new_withhold_votes),
               !.effective_total_votes = @ - new_abstain_votes,
               !.candidate_vote_counts =
                   [x \in remaining \cup receivers |->
                       (IF x \in remaining THEN counts[x] ELSE 0)
                       + SumSet([n \in to(x) |->
                                   all_vote_transfers[n] * root[n]], to(x))],
               !.frontier_nodes =
                   [x \in remaining \cup receivers |->
                       (IF x \in remaining THEN frontier[x] ELSE EmptyBag)
                       (+) [n \in to(x) |-> all_vote_transfers[n]]],
               !.rounds = @ + 1,
               !.eliminated = @ \cup weakest_candidates]

\* mutant: half of the effective votes is enough to win
majority_candidates_at_half(counts, effective_total_votes) ==
    {c \in DOMAIN counts : counts[c] >= effective_total_votes \div 2}

\* mutant: the candidates with the most votes win
majority_candidates_plurality(counts, effective_total_votes) ==
    {c \in DOMAIN counts : \A d \in DOMAIN counts : counts[d] <= counts[c]}

\* lib.rs 595-601: the candidates the scan can return as winner
majority_candidates(counts, effective_total_votes) ==
    {c \in DOMAIN counts : counts[c] > effective_total_votes \div 2}

\* one evaluation of the loop condition and, if it holds, one pass of the
\* while loop (lib.rs 587-672): the set of states it can leave, one for
\* each candidate the scan over candidate_vote_counts can meet first with
\* more than half of the effective votes
determine_winner_round(self, st) ==
    LET counts == st.candidate_vote_counts
        half == st.effective_total_votes \div 2
        majority == majority_candidates(counts, st.effective_total_votes)
    IN IF DOMAIN counts = {} THEN {Returned(st, None, "no candidates")}
       ELSE IF st.total_candidate_votes <= half
       THEN {Returned(st, None, "no majority possible")}
       ELSE IF majority # {}
       THEN {Returned(st, Some(c), "majority") : c \in majority}
       ELSE LET chosen == weakest_candidates_of(self, counts,
                                                st.ranked_pairs_map)
            IN IF ~chosen.ok
               THEN {Returned(st, Panic, "expect dowdall score")}
               ELSE IF ~(chosen.weakest \subseteq DOMAIN st.frontier_nodes)
               THEN {Returned(st, Panic, "expect frontier nodes")}
               ELSE {eliminate_and_transfer(self, st, chosen.weakest)}

RECURSIVE run_rounds(_, _)
\* the results the while loop can return from the state st
run_rounds(self, st) ==
    IF st.pc = "done" THEN {st.result}
    ELSE UNION {run_rounds(self, next) : next \in determine_winner_round(self, st)}

\* RankedChoiceVoteTrie::determine_winner: the set of values it can return
determine_winner(self) == run_rounds(self, determine_winner_init(self))

\* mutant: the votes are inserted into the receiver's own trie
run_election_on_receiver(self, votes) ==
    determine_winner(insert_votes(self, votes))

\* RankedChoiceVoteTrie::run_election: the set of values it can return
run_election(self, votes) ==
    LET rcv0 == [root |-> TrieNode_new,
                 dowdall_score_map |-> EmptyMap,
                 elimination_strategy |-> self.elimination_strategy,
                 unique_candidates |-> {}]
    IN determine_winner(insert_votes(rcv0, votes))

\* ---------------------------------------------------- state machine
VARIABLES
    rcv,       \* the RankedChoiceVoteTrie
    dw,        \* the locals of its determine_winner call
    election,  \* the last run_election call on rcv and what it returned
    parsed,    \* the last RankedVote::from_vector call and what it returned
    ballots    \* the bag of the RankedVotes handed to rcv.insert_vote so far

vars == <<rcv, dw, election, parsed, ballots>>

ElectionNone ==
    [called |-> FALSE, votes |-> <<>>, result |-> Pending,
     receiver_before |-> new]

ParsedNone ==
    [called |-> FALSE, raw |-> <<>>, vote |-> VoteErr("None"),
     converted |-> FALSE, vector |-> <<>>]

\* the raw vectors callers hand to from_vector before insert_vote
RawBallots == SeqsUpTo(Candidates \cup {WITHHOLD, ABSTAIN}, MaxLen)

\* the raw i32 values of the from_vector specification: special markers,
\* an unknown negative, zero, small ids and both sides of the u16 limit
RawValues == {-3, ABSTAIN, WITHHOLD, 0, 1, 2, U16Max, U16Max + 1}

Init ==
    /\ rcv = new
    /\ dw = DwIdle
    /\ election = ElectionNone
    /\ parsed = ParsedNone
    /\ ballots = EmptyBag

\* rcv.insert_vote(RankedVote::from_vector(&raw).unwrap())
InsertVoteUpTo(limit) ==
    \E raw \in RawBallots :
        LET vote == from_vector(raw)
        IN /\ dw.pc # "loop"
           /\ vote.kind = "Ok"
           /\ get_num_votes(rcv) < limit
           /\ rcv' = insert_vote(rcv, vote)
           /\ ballots' = ballots (+) SetToBag({vote})
           /\ dw' = DwIdle
           /\ election' = ElectionNone
           /\ UNCHANGED parsed

InsertVote == InsertVoteUpTo(MaxBallots)

\* rcv.set_elimination_strategy(strategy)
SetEliminationStrategy ==
    \E strategy \in Strategies :
        /\ dw.pc # "loop"
        /\ rcv' = set_elimination_strategy(rcv, strategy)
        /\ dw' = DwIdle
        /\ election' = ElectionNone
        /\ UNCHANGED <<parsed, ballots>>

\* rcv.determine_winner() is called and reaches the while loop
DetermineWinnerStart ==
    /\ dw.pc # "loop"
    /\ dw' = determine_winner_init(rcv)
    /\ election' = ElectionNone
    /\ UNCHANGED <<rcv, parsed, ballots>>

\* the loop condition and one pass of the while loop
DetermineWinnerRound ==
    /\ dw.pc = "loop"
    /\ dw' \in determine_winner_round(rcv, dw)
    /\ UNCHANGED <<rcv, election, parsed, ballots>>

Next ==
    \/ InsertVote
    \/ SetEliminationStrategy
    \/ DetermineWinnerStart
    \/ DetermineWinnerRound

Spec == Init /\ [][Next]_vars

\* determine_winner is a synchronous loop: once called it takes its next
\* pass until it returns.  This is WF_vars(DetermineWinnerRound) with the
\* enabling condition written out: a pass is enabled exactly when the call
\* is in the loop, and it always changes dw
SpecLive == Init /\ [][Next]_vars /\ ([]<>(dw.pc # "loop") \/ []<><<DetermineWinnerRound>>_vars)

\* the same engine with one more ballot
InsertVoteWide == InsertVoteUpTo(MaxBallotsWide)

NextWide ==
    \/ InsertVoteWide
    \/ SetEliminationStrategy
    \/ DetermineWinnerStart
    \/ DetermineWinnerRound

SpecWide == Init /\ [][NextWide]_vars

\* ---- run_election on a receiver that holds some ballots
ValidVotes == {from_vector(raw) : raw \in {r \in RawBallots :
                                             from_vector(r).kind = "Ok"}}

InsertReceiverVote == InsertVoteUpTo(MaxReceiverBallots)

\* rcv.run_election(votes); a call made right after another one leaves
\* the receiver where the first call found it and reaches the same states,
\* so calls are taken after the other operations only
RunElection ==
    /\ dw.pc # "loop"
    /\ ~election.called
    /\ \E votes \in SeqsUpTo(ValidVotes, MaxRunBallots) :
        \E result \in run_election(rcv, votes) :
            /\ election' = [called |-> TRUE, votes |-> votes,
                            result |-> result, receiver_before |-> rcv]
            /\ UNCHANGED <<rcv, dw, parsed, ballots>>

NextRun ==
    \/ InsertReceiverVote
    \/ SetEliminationStrategy
    \/ RunElection

SpecRun == Init /\ [][NextRun]_vars

\* ---- RankedVote::from_vector and to_vector on raw vectors
FromVector ==
    \E raw \in SeqsUpTo(RawValues, MaxRawLen) :
        /\ ~parsed.called
        /\ parsed' = [called |-> TRUE, raw |-> raw, vote |-> from_vector(raw),
                      converted |-> FALSE, vector |-> <<>>]
        /\ UNCHANGED <<rcv, dw, election, ballots>>

ToVector ==
    /\ parsed.called
    /\ parsed.vote.kind = "Ok"
    /\ parsed' = [parsed EXCEPT !.converted = TRUE,
                                !.vector = to_vector(parsed.vote)]
    /\ UNCHANGED <<rcv, dw, election, ballots>>

NextVote ==
    \/ FromVector
    \/ ToVector

SpecVote == Init /\ [][NextVote]_vars

\* ---- the spoiler election of tests/integration_test.rs 160-220; rcv is
\* the engine run_election builds, its insert_votes loop taken vote by vote
T == 3
S == 2
B == 1

SpoilerRawVotes ==
    [i \in 1..35 |-> <<S, B, T>>] \o [i \in 1..10 |-> <<B, S, T>>]
    \o [i \in 1..10 |-> <<B, T, S>>] \o [i \in 1..45 |-> <<T, B, S>>]

SpoilerVotes ==
    [i \in 1..Len(SpoilerRawVotes) |-> from_vector(SpoilerRawVotes[i])]

\* the next vote of the spoiler election is inserted into rcv
InsertSpoilerVote ==
    /\ dw.pc # "loop"
    /\ get_num_votes(rcv) < Len(SpoilerVotes)
    /\ rcv' = insert_vote(rcv, SpoilerVotes[get_num_votes(rcv) + 1])
    /\ ballots' = ballots (+) SetToBag({SpoilerVotes[get_num_votes(rcv) + 1]})
    /\ dw' = DwIdle
    /\ election' = ElectionNone
    /\ UNCHANGED parsed

NextSpoiler ==
    \/ InsertSpoilerVote
    \/ SetEliminationStrategy
    \/ DetermineWinnerStart
    \/ DetermineWinnerRound

SpecSpoiler == Init /\ [][NextSpoiler]_vars

\* ============================================================ claims
\* the ballots the nodes of a frontier list stand for
CreditedVotes(root, nodes) ==
    SumSet([n \in BagToSet(nodes) |-> nodes[n] * root[n]], BagToSet(nodes))

\* C1: whenever determine_winner returns Some(c), c is in the vote map with
\* votes[c] > effective_total / 2 (integer division), that is
\* 2 * votes[c] > effective_total, votes[c] being the ballots of c's
\* frontier nodes.
C1_WinnerHoldsStrictMajority ==
    (dw.pc = "done" /\ dw.result.tag = "Some") =>
        LET c == dw.result.value
            votes == dw.candidate_vote_counts
        IN /\ c \in DOMAIN votes
           /\ votes[c] > dw.effective_total_votes \div 2
           /\ 2 * votes[c] > dw.effective_total_votes
           /\ votes[c] = CreditedVotes(rcv.root, dw.frontier_nodes[c])

\* a winner declared after a transfer, with a rival still in the vote map
C1_Witness ==
    /\ dw.pc = "done"
    /\ dw.result.tag = "Some"
    /\ dw.rounds >= 1
    /\ Cardinality(DOMAIN dw.candidate_vote_counts) >= 2

\* C7: determine_winner never fails an assertion, an expect or an unsigned
\* subtraction: it ends by returning Some(candidate) or None.
C7_ReturnsWithoutPanic ==
    /\ dw.result.tag # "Panic"
    /\ dw.pc = "done" => dw.result.tag \in {"Some", "None"}
    /\ dw.pc # "done" => dw.result.tag = "Pending"

\* a pairwise-table strategy returned after a round that subtracted a
\* special-marker count from the totals
C7_Witness ==
    /\ dw.pc = "done"
    /\ rcv.elimination_strategy \in {"RankedPairs", "CondorcetRankedPairs"}
    /\ dw.rounds >= 1
    /\ dw.total_candidate_votes < SumSet(rcv.root,
                                         {n \in Children(rcv.root, <<>>) :
                                             ~IsSpecialVote(Last(n))})

\* every inserted ballot starts with a special marker, or none was inserted
OnlySpecialFirst(self) ==
    \A n \in Children(self.root, <<>>) : IsSpecialVote(Last(n))

\* C9: if every inserted ballot starts with a special marker (or there is no
\* ballot), determine_winner finds an empty vote map and returns None
\* without eliminating anybody.
C9_OnlySpecialBallotsGiveNone ==
    (dw.pc # "idle" /\ OnlySpecialFirst(rcv)) =>
        /\ DOMAIN dw.candidate_vote_counts = {}
        /\ dw.rounds = 0 /\ dw.last = NoRound
        /\ dw.pc = "done" => dw.result = None /\ dw.why = "no candidates"

\* withheld and abstained ballots only, and determine_winner has returned
C9_Witness ==
    /\ dw.pc = "done"
    /\ OnlySpecialFirst(rcv)
    /\ <<WITHHOLD>> \in DOMAIN rcv.root
    /\ <<ABSTAIN>> \in DOMAIN rcv.root
    /\ get_num_votes(rcv) >= 3

\* C10: for a fixed trie and strategy the value determine_winner returns does
\* not depend on the order in which the vote map is scanned: every pass of
\* the loop has one outcome, and so has the whole call.
C10_ResultIndependentOfIterationOrder ==
    /\ dw.pc = "loop" => Cardinality(determine_winner_round(rcv, dw)) = 1
    /\ dw.pc = "idle" => Cardinality(determine_winner(rcv)) = 1

\* a winner found in the first scan of a vote map of several candidates
C10_Witness ==
    /\ dw.pc = "done"
    /\ dw.result.tag = "Some"
    /\ dw.rounds = 0
    /\ Cardinality(DOMAIN dw.candidate_vote_counts) >= 2

\* num_votes of the child of node reached by the edge vote_value, 0 if none
ChildVotes(root, node, vote_value) ==
    GetOr0(root, Append(node, vote_value))

\* the ballots of the eliminated frontier nodes whose next rank is special
NextRankVotes(root, eliminated_nodes, special) ==
    SumSet([n \in BagToSet(eliminated_nodes) |->
              eliminated_nodes[n] * ChildVotes(root, n, special)],
           BagToSet(eliminated_nodes))

\* C2: in a round, new_withhold (new_abstain) is the sum of num_votes of the
\* Withhold (Abstain) children of the eliminated candidates' frontier nodes;
\* after the round candidate_total has dropped by the ballots whose next
\* rank is Withhold or Abstain and effective_total by those whose next rank
\* is Abstain.
C2_SpecialChildrenCountTheirVotes ==
    dw.last.weakest # {} =>
        LET withheld == NextRankVotes(rcv.root, dw.last.eliminated_nodes,
                                      SpecialVote("WITHHOLD"))
            abstained == NextRankVotes(rcv.root, dw.last.eliminated_nodes,
                                       SpecialVote("ABSTAIN"))
        IN /\ dw.last.new_withhold_votes = withheld
           /\ dw.last.new_abstain_votes = abstained
           /\ (dw.pc = "loop" /\ dw.rounds >= 1) =>
                 /\ dw.total_candidate_votes
                      = dw.last.candidate_before - (withheld + abstained)
                 /\ dw.effective_total_votes
                      = dw.last.effective_before - abstained

\* C3: no pending transfer of a round targets a candidate that an earlier
\* round eliminated.
C3_NoTransferToEliminatedCandidate ==
    \A n \in BagToSet(dw.last.all_vote_transfers) :
        Last(n) \notin dw.last.eliminated_before

\* C4: run_election(votes) returns what a fresh engine with the receiver's
\* strategy returns after insert_votes(votes) and determine_winner(), and
\* leaves the receiver as it was.
C4_RunElectionIsFreshElection ==
    election.called =>
        /\ {election.result}
             = determine_winner(
                   insert_votes(
                       set_elimination_strategy(new, rcv.elimination_strategy),
                       election.votes))
        /\ rcv = election.receiver_before

\* run_election on a receiver that holds a ballot and whose strategy is not
\* the default one, with a winner the receiver's own ballots do not give
C4_Witness ==
    /\ election.called
    /\ get_num_votes(rcv) >= 1
    /\ rcv.elimination_strategy # "DowdallScoring"
    /\ Len(election.votes) = 2
    /\ election.result.tag = "Some"
    /\ election.result \notin determine_winner(rcv)

\* the construction invariants of a raw vector
SatisfiesConstructionInvariants(raw) ==
    /\ Len(raw) > 0
    /\ \A i, j \in 1..Len(raw) : i # j => raw[i] # raw[j]
    /\ \A i \in 1..Len(raw) :
          \/ raw[i] >= 0 /\ raw[i] <= U16Max
          \/ raw[i] \in {WITHHOLD, ABSTAIN} /\ i = Len(raw)

\* C5: from_vector succeeds on every raw vector that satisfies the
\* construction invariants (candidate id 0 included) and to_vector gives the
\* raw vector back.
C5_FromToVectorRoundTrip ==
    (parsed.called /\ SatisfiesConstructionInvariants(parsed.raw)) =>
        /\ parsed.vote.kind = "Ok"
        /\ to_vector(parsed.vote) = parsed.raw
        /\ parsed.converted => parsed.vector = parsed.raw

\* the error kinds of the construction rules a raw vector violates
ViolatedRuleKinds(raw) ==
    (IF Len(raw) = 0 THEN {"VoteIsEmpty"} ELSE {})
    \cup (IF \E i, j \in 1..Len(raw) : i < j /\ raw[i] = raw[j]
          THEN {"DuplicateVotes"} ELSE {})
    \cup (IF \E i \in 1..Len(raw) : raw[i] < 0 /\ i # Len(raw)
          THEN {"NonFinalSpecialVote"} ELSE {})
    \cup (IF Len(raw) > 0 /\ raw[Len(raw)] < 0
             /\ raw[Len(raw)] \notin {WITHHOLD, ABSTAIN}
          THEN {"InvalidCastToSpecialVote"} ELSE {})

\* C6: from_vector returns an error for every raw vector that violates a
\* construction rule, of the kind of a rule the vector violates (of the one
\* rule when it violates one only); a candidate id out of range apart, which
\* is no rule of the four.
C6_RuleViolationsGiveTheirError ==
    (/\ parsed.called
     /\ ViolatedRuleKinds(parsed.raw) # {}
     /\ \A i \in 1..Len(parsed.raw) : parsed.raw[i] <= U16Max) =>
        /\ parsed.vote.kind = "Err"
        /\ parsed.vote.err \in ViolatedRuleKinds(parsed.raw)

\* all the spoiler votes have been inserted
SpoilerInserted == get_num_votes(rcv) = Len(SpoilerVotes)

\* C8: on the spoiler election the winner is T under RankedPairs and B under
\* CondorcetRankedPairs.
C8_SpoilerElectionWinners ==
    (dw.pc = "done" /\ SpoilerInserted) =>
        /\ rcv.elimination_strategy = "RankedPairs" => dw.result = Some(T)
        /\ rcv.elimination_strategy = "CondorcetRankedPairs"
              => dw.result = Some(B)

\* the spoiler election decided under CondorcetRankedPairs after a round
C8_Witness ==
    /\ dw.pc = "done"
    /\ SpoilerInserted
    /\ rcv.elimination_strategy = "CondorcetRankedPairs"
    /\ dw.rounds >= 1
    /\ dw.result = Some(B)

\* the inserted ballots whose entries are exactly the edges of the path node
BallotsEndingAt(votes, node) ==
    SumSet([v \in BagToSet(votes) |-> IF iter(v) = node THEN votes[v] ELSE 0],
           BagToSet(votes))

\* C11: after any sequence of insert_vote calls every node n has
\* n.num_votes >= the sum of its children's num_votes (each child's count is
\* at most its parent's), the difference is the number of inserted ballots
\* that end exactly at n, and get_num_votes is the number of ballots inserted.
C11_NodeCountsCoverChildren ==
    /\ get_num_votes(rcv) = BagCardinality(ballots)
    /\ \A n \in DOMAIN rcv.root :
          LET kids == Children(rcv.root, n)
          IN /\ rcv.root[n] >= SumSet(rcv.root, kids)
             /\ \A c \in kids : rcv.root[c] <= rcv.root[n]
             /\ rcv.root[n] - SumSet(rcv.root, kids)
                   = BallotsEndingAt(ballots, n)

\* a candidate's node with two children and a ballot that ends at it
C11_Witness ==
    \E n \in DOMAIN rcv.root :
        /\ Len(n) >= 1
        /\ Cardinality(Children(rcv.root, n)) >= 2
        /\ BallotsEndingAt(ballots, n) >= 1

RECURSIVE VotesInFixedOrder(_)
\* the votes of a bag listed in one fixed order, copies included
VotesInFixedOrder(votes) ==
    IF BagToSet(votes) = {} THEN <<>>
    ELSE LET v == CHOOSE x \in BagToSet(votes) : TRUE
         IN <<v>> \o VotesInFixedOrder(votes (-) SetToBag({v}))

\* C12: the trie and the unique-candidate set depend on the multiset of the
\* inserted ballots only: whatever the order of the insert_vote calls was,
\* they are those of the same ballots inserted in one fixed order.
C12_InsertionOrderDoesNotMatter ==
    LET again == insert_votes(new, VotesInFixedOrder(ballots))
    IN /\ rcv.root = again.root
       /\ rcv.unique_candidates = again.unique_candidates

\* three different ballots, two of them with the same first candidate
C12_Witness ==
    /\ BagCardinality(ballots) = 3
    /\ Cardinality(BagToSet(ballots)) = 3
    /\ \E n \in DOMAIN rcv.root :
          Len(n) = 1 /\ ~IsSpecialVote(Last(n)) /\ rcv.root[n] = 2

\* the inserted ballots whose first entry is not vote_value
BallotsNotBeginningWith(votes, vote_value) ==
    SumSet([v \in BagToSet(votes) |->
              IF iter(v)[1] # vote_value THEN votes[v] ELSE 0],
           BagToSet(votes))

\* determine_winner has initialised its locals and not yet entered the loop
AfterInitialization == dw.pc = "loop" /\ dw.rounds = 0

\* C13: right after the initialization of determine_winner the sum of
\* votes[c] plus the num_votes of the root's Withhold and Abstain children is
\* the number of ballots inserted, candidate_total is the sum of votes[c] and
\* effective_total is the number of ballots that do not begin with Abstain.
C13_InitialTotalsConserveBallots ==
    AfterInitialization =>
        LET votes == dw.candidate_vote_counts
            sum == SumSet(votes, DOMAIN votes)
        IN /\ sum + ChildVotes(rcv.root, <<>>, SpecialVote("WITHHOLD"))
                  + ChildVotes(rcv.root, <<>>, SpecialVote("ABSTAIN"))
                = BagCardinality(ballots)
           /\ dw.total_candidate_votes = sum
           /\ dw.effective_total_votes
                = BallotsNotBeginningWith(ballots, SpecialVote("ABSTAIN"))

\* initialization over a withheld, an abstained and a candidate's ballot
C13_Witness ==
    /\ AfterInitialization
    /\ ChildVotes(rcv.root, <<>>, SpecialVote("WITHHOLD")) >= 1
    /\ ChildVotes(rcv.root, <<>>, SpecialVote("ABSTAIN")) >= 1
    /\ DOMAIN dw.candidate_vote_counts # {}

\* C14: within one determine_winner call effective_total never increases
\* from one round to the next, and candidate_total <= effective_total at
\* every point of the loop.
C14_EffectiveTotalNeverIncreases ==
    /\ [](dw.total_candidate_votes <= dw.effective_total_votes)
    /\ [][dw.pc = "loop" =>
            dw'.effective_total_votes <= dw.effective_total_votes]_vars

\* a round has lowered effective_total and the loop goes on
C14_Witness ==
    /\ dw.pc = "loop"
    /\ dw.rounds >= 1
    /\ dw.effective_total_votes < dw.last.effective_before
    /\ dw.total_candidate_votes < dw.effective_total_votes

\* C15: in the pairwise table build_ranked_pairs_map builds from the trie of
\* the inserted ballots, table[(a,b)] + table[(b,a)] is at most the number of
\* ballots inserted for every pair of candidates a # b (a missing entry
\* counts as 0); the table determine_winner holds under the two pairwise
\* strategies is that table.
C15_PairwiseTotalsBound ==
    LET table == ranked_pairs_map_of(rcv)
    IN /\ \A a, b \in Candidates :
             a # b => GetOr0(table, <<a, b>>) + GetOr0(table, <<b, a>>)
                        <= BagCardinality(ballots)
       /\ (dw.pc # "idle" /\ rcv.elimination_strategy
                                \in {"RankedPairs", "CondorcetRankedPairs"})
             => dw.ranked_pairs_map = table

\* determine_winner has built a table in which every inserted ballot
\* counts for a pair or for its reverse, with ballots on both sides
C15_Witness ==
    /\ dw.pc # "idle"
    /\ BagCardinality(ballots) >= 3
    /\ \E a, b \in Candidates :
          /\ a # b
          /\ GetOr0(dw.ranked_pairs_map, <<a, b>>) >= 1
          /\ GetOr0(dw.ranked_pairs_map, <<b, a>>) >= 1
          /\ GetOr0(dw.ranked_pairs_map, <<a, b>>)
               + GetOr0(dw.ranked_pairs_map, <<b, a>>)
               = BagCardinality(ballots)

\* C16: at the start of every round the sum of votes[c] over the vote map
\* is at most effective_total, so at most one candidate has
\* votes[c] > effective_total / 2.
C16_VotesSumWithinEffectiveTotal ==
    dw.pc = "loop" =>
        LET votes == dw.candidate_vote_counts
        IN /\ SumSet(votes, DOMAIN votes) <= dw.effective_total_votes
           /\ Cardinality({c \in DOMAIN votes :
                  votes[c] > dw.effective_total_votes \div 2}) <= 1

\* a round starts after a transfer with two candidates in the vote map that
\* hold all the effective votes between them
C16_Witness ==
    /\ dw.pc = "loop"
    /\ dw.rounds >= 1
    /\ Cardinality(DOMAIN dw.candidate_vote_counts) >= 2
    /\ SumSet(dw.candidate_vote_counts, DOMAIN dw.candidate_vote_counts)
         = dw.effective_total_votes

\* C17: at the start of every round candidate_total is the sum of votes[c]
\* over the candidates in the vote map, also after the elimination of a
\* candidate whose ballots end with no further rank.
C17_CandidateTotalIsVotesSum ==
    dw.pc = "loop" =>
        dw.total_candidate_votes
          = SumSet(dw.candidate_vote_counts, DOMAIN dw.candidate_vote_counts)

\* the ballot lists a, and lists b at a later rank or not at all
ListsBefore(vote, a, b) ==
    LET items == iter(vote)
    IN \E i \in 1..Len(items) :
          items[i] = a /\ \A j \in 1..Len(items) : items[j] = b => j > i

\* the inserted ballots that list a and list b later or not at all
BallotsPreferring(votes, a, b) ==
    SumSet([v \in BagToSet(votes) |->
              IF ListsBefore(v, a, b) THEN votes[v] ELSE 0],
           BagToSet(votes))

\* C18: for every ordered pair of distinct candidates (a,b) the entry of the
\* pairwise table is the number of inserted ballots that list a and list b
\* at a later rank or not at all, ballots that end with a Withhold or
\* Abstain marker included.
C18_PairwiseEntryCountsPreferringBallots ==
    LET table == ranked_pairs_map_of(rcv)
    IN \A a, b \in rcv.unique_candidates :
          a # b => GetOr0(table, <<a, b>>) = BallotsPreferring(ballots, a, b)

\* the least element of a non-empty set of numbers
Least(numbers) == CHOOSE x \in numbers : \A y \in numbers : x <= y

\* the weakest set of a CondorcetRankedPairs round as the threshold on the
\* second-smallest distinct vote count gives it
WeakestAtSecondDistinctCount(votes, table) ==
    LET distinct == {votes[c] : c \in DOMAIN votes}
        m == Least(distinct)
        t == IF distinct = {m} THEN m ELSE Least(distinct \ {m})
        lowest == {c \in DOMAIN votes : votes[c] = m}
        analysed == find_ranked_pairs_weakest(
                        {c \in DOMAIN votes : votes[c] <= t}, table)
    IN IF analysed.decisive THEN analysed.weakest ELSE lowest

\* the step is a pass of the while loop that went through the elimination
EliminationRound ==
    /\ dw.pc = "loop"
    /\ dw'.pc = "loop" \/ dw'.why = "no transfers"

\* C19: under CondorcetRankedPairs a round hands the analyzer the candidates
\* with votes[c] <= t, t the second-smallest distinct vote count (the
\* minimum when there is one distinct count), and eliminates the analyzer's
\* sinks when it is decisive and the minimum-vote set otherwise.
C19_CondorcetThresholdIsSecondDistinctCount ==
    [][(EliminationRound /\ rcv.elimination_strategy = "CondorcetRankedPairs")
         => dw'.last.weakest
              = WeakestAtSecondDistinctCount(dw.candidate_vote_counts,
                                             dw.ranked_pairs_map)]_vars

\* a -> b exactly when table[(a,b)] > table[(b,a)], a and b in C
NetPreferenceEdges(C, table) ==
    {e \in C \X C : e[1] # e[2] /\ GetOr0(table, <<e[1], e[2]>>)
                                     > GetOr0(table, <<e[2], e[1]>>)}

RECURSIVE PathsOfUpTo(_, _)
\* the pairs joined by a path of 1 to n + 1 edges of R
PathsOfUpTo(R, n) ==
    IF n = 0 THEN R
    ELSE LET shorter == PathsOfUpTo(R, n - 1)
         IN shorter \cup {<<p[1][1], p[2][2]>> :
                             p \in {q \in shorter \X R : q[1][2] = q[2][1]}}

HasDirectedCycle(C, edges) ==
    \E a \in C : <<a, a>> \in PathsOfUpTo(edges, Cardinality(C))

WeaklyConnected(C, edges) ==
    LET undirected == edges \cup {<<e[2], e[1]>> : e \in edges}
    IN \A a, b \in C :
          a = b \/ <<a, b>> \in PathsOfUpTo(undirected, Cardinality(C))

\* what the analyzer is to return on the candidate set C
SinksIfDecisive(C, table) ==
    LET edges == NetPreferenceEdges(C, table)
    IN IF HasDirectedCycle(C, edges) \/ ~WeaklyConnected(C, edges)
       THEN [weakest |-> C, decisive |-> FALSE]
       ELSE [weakest |-> {n \in C : \A e \in edges : e[1] # n},
             decisive |-> TRUE]

\* C20: on a candidate set C find_ranked_pairs_weakest returns (C, false)
\* when the graph with an edge a -> b exactly when table[(a,b)] >
\* table[(b,a)] has a directed cycle or is not weakly connected, and
\* otherwise (the nodes of C with no outgoing edge, true); a one-candidate C
\* is decisive and returns that candidate.
C20_AnalyzerReturnsSinksOrAll ==
    LET table == ranked_pairs_map_of(rcv)
    IN /\ \A C \in SUBSET Candidates :
             find_ranked_pairs_weakest(C, table) = SinksIfDecisive(C, table)
       /\ \A c \in Candidates :
             find_ranked_pairs_weakest({c}, table)
               = [weakest |-> {c}, decisive |-> TRUE]

\* a RankedPairs round eliminated all three candidates because their
\* preferences form a cycle, two of which alone give a decisive graph
C20_Witness ==
    /\ rcv.elimination_strategy = "RankedPairs"
    /\ dw.rounds >= 1
    /\ dw.last.weakest = Candidates
    /\ HasDirectedCycle(Candidates,
                        NetPreferenceEdges(Candidates, dw.ranked_pairs_map))
    /\ \E C \in SUBSET Candidates :
          /\ Cardinality(C) = 2
          /\ find_ranked_pairs_weakest(C, dw.ranked_pairs_map).decisive

\* the candidates with the minimum vote count of a vote map
LowestOf(votes) ==
    {c \in DOMAIN votes : \A d \in DOMAIN votes : votes[c] <= votes[d]}

\* the candidates of a set whose score is minimal in the set, ties included
MinimalScoreOf(candidates, scores) ==
    {c \in candidates : \A d \in candidates : F32Le(scores[c], scores[d])}

RECURSIVE Factorial(_)
Factorial(n) == IF n = 0 THEN 1 ELSE n * Factorial(n - 1)

\* scale times the sum of 1/(r+1) over the 0-based positions r at which the
\* candidate stands on the votes of a bag (scale a multiple of every r+1)
ScaledPositionalScore(votes, candidate, scale) ==
    SumSet([v \in BagToSet(votes) |->
              votes[v] * SumSet([i \in 1..Len(iter(v)) |->
                                   IF iter(v)[i] = candidate
                                   THEN scale \div i ELSE 0],
                                1..Len(iter(v)))],
           BagToSet(votes))

\* the votes of a bag that list the candidate
Appearances(votes, candidate) ==
    SumSet([v \in BagToSet(votes) |->
              IF candidate \in Range(iter(v)) THEN votes[v] ELSE 0],
           BagToSet(votes))

\* the f32 score is the positional sum up to one unit in the last place
\* for each term added
ScoreIsPositionalSum(score, votes, candidate) ==
    LET scale == Factorial(MaxLen)
        exact == ScaledPositionalScore(votes, candidate, scale)
                   * Pow2(0 - score.e)
        held == score.m * scale
        gap == IF held >= exact THEN held - exact ELSE exact - held
    IN score.m > 0 /\ score.e < 0
       /\ gap <= Appearances(votes, candidate) * scale

\* C21: a DowdallScoring round eliminates exactly the minimum-vote
\* candidates whose Dowdall score is minimal among them, ties included, and
\* an EliminateAll round all the minimum-vote candidates; the score map
\* holds, for the candidates on the ballots and for nothing else, the sum of
\* 1/(r+1) over the positions r at which the candidate stands (as f32 sums,
\* exact where the terms are binary fractions).
C21_DowdallEliminatesMinimalScores ==
    /\ [](/\ DOMAIN rcv.dowdall_score_map = rcv.unique_candidates
          /\ \A c \in rcv.unique_candidates :
                ScoreIsPositionalSum(rcv.dowdall_score_map[c], ballots, c))
    /\ [][(EliminationRound /\ rcv.elimination_strategy = "DowdallScoring")
            => dw'.last.weakest
                 = MinimalScoreOf(LowestOf(dw.candidate_vote_counts),
                                  rcv.dowdall_score_map)]_vars
    /\ [][(EliminationRound /\ rcv.elimination_strategy = "EliminateAll")
            => dw'.last.weakest = LowestOf(dw.candidate_vote_counts)]_vars

\* a DowdallScoring round eliminated one candidate and left in the vote map
\* a candidate with as many votes and a higher score
C21_Witness ==
    /\ rcv.elimination_strategy = "DowdallScoring"
    /\ dw.pc = "loop"
    /\ dw.rounds = 1
    /\ \E c \in dw.last.weakest, d \in DOMAIN dw.candidate_vote_counts :
          /\ dw.last.weakest = {c}
          /\ d \notin {Last(n) : n \in BagToSet(dw.last.all_vote_transfers)}
          /\ dw.candidate_vote_counts[d]
               = CreditedVotes(rcv.root, dw.last.eliminated_nodes)
          /\ ~F32Le(rcv.dowdall_score_map[d], rcv.dowdall_score_map[c])

\* the frontier nodes a round eliminated have no Candidate child
NoCandidateChildBelow(root, eliminated_nodes) ==
    \A n \in BagToSet(eliminated_nodes) :
        \A child \in Children(root, n) : IsSpecialVote(Last(child))

\* C22: when the candidates a round eliminates give no candidate transfer
\* (every child of their frontier nodes is a special marker, or there is no
\* child), determine_winner returns None in that round, whoever remains in
\* the vote map.
C22_NoTransferGivesNone ==
    (dw.last.weakest # {}
       /\ NoCandidateChildBelow(rcv.root, dw.last.eliminated_nodes)) =>
        /\ dw.pc = "done"
        /\ dw.result = None
        /\ dw.effective_total_votes = dw.last.effective_before

\* None was returned for want of a transfer while a remaining candidate
\* holds a majority of the effective total less the new abstentions
C22_Witness ==
    /\ dw.pc = "done"
    /\ dw.result = None
    /\ dw.last.weakest # {}
    /\ NoCandidateChildBelow(rcv.root, dw.last.eliminated_nodes)
    /\ dw.last.new_abstain_votes >= 1
    /\ \E d \in DOMAIN dw.candidate_vote_counts :
          dw.candidate_vote_counts[d]
            > (dw.effective_total_votes - dw.last.new_abstain_votes) \div 2

\* all the nodes of the frontier lists of a frontier map
FrontierNodes(frontier) ==
    UNION {BagToSet(frontier[c]) : c \in DOMAIN frontier}

\* the trie nodes at or below the nodes of a frontier map
NodesAtOrBelow(root, frontier) ==
    {p \in DOMAIN root :
        \E n \in FrontierNodes(frontier) :
            Len(n) <= Len(p) /\ SubSeq(p, 1, Len(n)) = n}

\* the step is a pass of the while loop after which the loop goes on
RoundGoesOn == dw.pc = "loop" /\ dw'.pc = "loop"

\* C23: determine_winner terminates under each strategy: a round that does
\* not return eliminates a non-empty set of candidates of the vote map and
\* puts the children of their frontier nodes in the place of these nodes,
\* so fewer trie nodes remain at or below the frontier, the rounds number
\* at most the trie's nodes, and a call that has started returns.
C23_DetermineWinnerTerminates ==
    /\ [][RoundGoesOn =>
            /\ dw'.last.weakest # {}
            /\ dw'.last.weakest \subseteq DOMAIN dw.candidate_vote_counts
            /\ \A n \in FrontierNodes(dw'.frontier_nodes)
                          \ FrontierNodes(dw.frontier_nodes) :
                  Parent(n) \in UNION {BagToSet(dw.frontier_nodes[c]) :
                                         c \in dw'.last.weakest}
            /\ Cardinality(NodesAtOrBelow(rcv.root, dw'.frontier_nodes))
                 < Cardinality(NodesAtOrBelow(rcv.root, dw.frontier_nodes))
            /\ dw'.rounds = dw.rounds + 1]_vars
    /\ [](dw.rounds <= Cardinality(DOMAIN rcv.root))
    /\ (dw.pc = "loop") ~> (dw.pc = "done")

\* a call went on after its first elimination and returned in a later pass
\* that eliminated again
C23_Witness ==
    /\ dw.pc = "done"
    /\ dw.why = "no transfers"
    /\ dw.rounds >= 1
    /\ \E n \in BagToSet(dw.last.eliminated_nodes) : Len(n) >= 2

\* node is a proper ancestor of other in the trie
IsAncestor(node, other) ==
    Len(node) < Len(other) /\ SubSeq(other, 1, Len(node)) = node

\* C24: at the start of every round the vote map and the frontier map have
\* the same candidate keys, every frontier list is non-empty, votes[c] is
\* the sum of num_votes over the nodes of frontier[c], every node of
\* frontier[c] is a trie node reached by an edge labelled Candidate(c), and
\* no frontier node is an ancestor of another.
C24_FrontierMatchesVoteMap ==
    dw.pc = "loop" =>
        /\ DOMAIN dw.candidate_vote_counts = DOMAIN dw.frontier_nodes
        /\ \A c \in DOMAIN dw.frontier_nodes :
              /\ ~IsSpecialVote(c)
              /\ dw.frontier_nodes[c] # EmptyBag
              /\ dw.candidate_vote_counts[c]
                   = CreditedVotes(rcv.root, dw.frontier_nodes[c])
              /\ \A n \in BagToSet(dw.frontier_nodes[c]) :
                    /\ n \in DOMAIN rcv.root
                    /\ Len(n) >= 1
                    /\ Last(n) = c
        /\ \A m, n \in FrontierNodes(dw.frontier_nodes) : ~IsAncestor(m, n)

\* a round starts with a candidate whose frontier list holds a first-level
\* node and a node that a transfer added, next to another candidate
C24_Witness ==
    /\ dw.pc = "loop"
    /\ dw.rounds >= 1
    /\ \E c \in DOMAIN dw.frontier_nodes :
          /\ \E m, n \in BagToSet(dw.frontier_nodes[c]) :
                Len(m) = 1 /\ Len(n) = 2
          /\ DOMAIN dw.frontier_nodes # {c}

\* C25: a candidate eliminated in some round of a determine_winner call is
\* never the candidate that call returns as winner, under any strategy.
C25_EliminatedNeverWins ==
    (dw.pc = "done" /\ dw.result.tag = "Some") =>
        dw.result.value \notin dw.eliminated

====
